---- MODULE Spec2Model ----
\* Model of automation/auto-remediate.py: the SecurityRemediator methods and
\* the main() workflow that turns FCS scan findings into a fix branch and a
\* pull request.
EXTENDS Integers, Sequences, FiniteSets, TLC

\* ---------------------------------------------------------------- bounds
\* Most directory entries listed in one results directory.
MaxFiles == 2
\* Most runs of main() on the same checkout.
MaxRuns == 2

\* ---------------------------------------------------------------- strings
\* Strings whose characters the code inspects (severity labels, file names)
\* are sequences of one-character strings.
LowerLetters == <<"a","b","c","d","e","f","g","h","i","j","k","l","m",
                  "n","o","p","q","r","s","t","u","v","w","x","y","z">>
UpperLetters == <<"A","B","C","D","E","F","G","H","I","J","K","L","M",
                  "N","O","P","Q","R","S","T","U","V","W","X","Y","Z">>

IndexIn(c, letters) ==
    IF \E i \in DOMAIN letters : letters[i] = c
    THEN CHOOSE i \in DOMAIN letters : letters[i] = c
    ELSE 0

IsLetter(c) == IndexIn(c, LowerLetters) # 0 \/ IndexIn(c, UpperLetters) # 0

UpperChar(c) ==
    IF IndexIn(c, LowerLetters) # 0 THEN UpperLetters[IndexIn(c, LowerLetters)] ELSE c

LowerChar(c) ==
    IF IndexIn(c, UpperLetters) # 0 THEN LowerLetters[IndexIn(c, UpperLetters)] ELSE c

\* str.upper()
Upper(s) == [i \in DOMAIN s |-> UpperChar(s[i])]

\* str.lower()
Lower(s) == [i \in DOMAIN s |-> LowerChar(s[i])]

\* str.title(): a letter that follows a non-letter is upper-cased, every
\* other letter is lower-cased.
Title(s) ==
    [i \in DOMAIN s |->
        IF i = 1 \/ ~IsLetter(s[i - 1]) THEN UpperChar(s[i]) ELSE LowerChar(s[i])]

\* str.endswith(suffix)
EndsWith(s, suffix) ==
    /\ Len(s) >= Len(suffix)
    /\ \A i \in 1..Len(suffix) : s[Len(s) - Len(suffix) + i] = suffix[i]

\* dict.get(key, default) on a dict modelled as a record
Get(d, key, default) == IF key \in DOMAIN d THEN d[key] ELSE default

CRITICAL == <<"C","R","I","T","I","C","A","L">>
HIGH == <<"H","I","G","H">>
MEDIUM == <<"M","E","D","I","U","M">>
INFORMATIONAL == <<"I","N","F","O","R","M","A","T","I","O","N","A","L">>
CRITICAL_HIGH == CRITICAL \o <<"/">> \o HIGH
JsonExt == <<".","j","s","o","n">>

\* ---------------------------------------------------------------- inputs
\* Findings as the scanner writes them: any of the fields may be absent.
Findings ==
    { [severity |-> CRITICAL, rule_name |-> "S3 public", details |-> "bucket is public"],
      [severity |-> <<"h","i","g","h">>, rule_name |-> "IAM wildcard",
       description |-> "policy allows *"],
      [severity |-> <<"M","e","d","i","u","m">>],
      [rule_name |-> "No severity", details |-> "d", description |-> "e"],
      [severity |-> <<"L","O","W">>, rule_name |-> "Low rule"],
      [severity |-> INFORMATIONAL, description |-> "note"] }

FindingWith(sev) == CHOOSE f \in Findings : Get(f, "severity", <<>>) = sev

\* Directory entries: a name, whether open()/json.load() succeed on it, and
\* the parsed JSON object.
Files ==
    { [name |-> <<"a">> \o JsonExt, parses |-> TRUE,
       data |-> [rule_detections |-> <<FindingWith(CRITICAL), FindingWith(<<"L","O","W">>)>>]],
      [name |-> <<"b">> \o JsonExt, parses |-> TRUE,
       data |-> [rule_detections |-> <<FindingWith(<<"h","i","g","h">>), FindingWith(<<>>)>>]],
      [name |-> <<"c">> \o JsonExt, parses |-> TRUE,
       data |-> [rule_detections |-> <<FindingWith(<<"M","e","d","i","u","m">>),
                                       FindingWith(INFORMATIONAL)>>]],
      [name |-> <<"d">> \o JsonExt, parses |-> TRUE, data |-> [summary |-> "clean"]],
      [name |-> <<"e">> \o JsonExt, parses |-> FALSE, data |-> [summary |-> "garbled"]],
      [name |-> <<"n",".","t","x","t">>, parses |-> FALSE, data |-> [summary |-> "text"]] }

\* os.listdir results: sequences of distinct entries in any order.
Listings ==
    UNION { { s \in [1..n -> Files] : \A i, j \in 1..n : i # j => s[i] # s[j] }
            : n \in 0..MaxFiles }

\* A results path: whether os.listdir succeeds, and what it lists.
Dirs == { [listable |-> TRUE, files |-> l] : l \in Listings }
            \cup { [listable |-> FALSE, files |-> <<>>] }

\* ---------------------------------------------------------------- pure methods
\* The loop body of load_security_findings up to the first exception: the
\* except clause sits outside the loop, so an exception ends the loop and
\* the findings gathered so far are returned.
RECURSIVE load_loop(_, _)
load_loop(files, findings) ==
    IF files = <<>> THEN findings
    ELSE LET f == Head(files) IN
         IF ~EndsWith(f.name, JsonExt) THEN load_loop(Tail(files), findings)
         ELSE IF ~f.parses THEN findings
         ELSE IF "rule_detections" \in DOMAIN f.data
              THEN load_loop(Tail(files), findings \o f.data.rule_detections)
              ELSE load_loop(Tail(files), findings)

load_security_findings(results_path) ==
    IF ~results_path.listable THEN <<>> ELSE load_loop(results_path.files, <<>>)

\* Whether load_security_findings takes its except branch on this path.
load_raises(results_path) ==
    \/ ~results_path.listable
    \/ \E i \in DOMAIN results_path.files :
          /\ EndsWith(results_path.files[i].name, JsonExt)
          /\ ~results_path.files[i].parses

Labels == {CRITICAL, HIGH, MEDIUM, INFORMATIONAL}

EmptyCategories == [k \in Labels |-> <<>>]

\* Mutant: the severity is looked up without upper-casing it.
finding_severity_as_written(finding) == Get(finding, "severity", INFORMATIONAL)

finding_severity(finding) == Upper(Get(finding, "severity", INFORMATIONAL))

RECURSIVE categorize_loop(_, _)
categorize_loop(findings, categories) ==
    IF findings = <<>> THEN categories
    ELSE LET severity == finding_severity(Head(findings)) IN
         IF severity \in DOMAIN categories
         THEN categorize_loop(Tail(findings),
                 [categories EXCEPT ![severity] = Append(@, Head(findings))])
         ELSE categorize_loop(Tail(findings), categories)

categorize_findings(findings) == categorize_loop(findings, EmptyCategories)

\* Mutant: the HIGH bucket is left out.
critical_only_of(categories) == categories[CRITICAL]

\* Mutant: the MEDIUM bucket is remediated too.
critical_high_medium_of(categories) ==
    categories[CRITICAL] \o categories[HIGH] \o categories[MEDIUM]

critical_and_high_of(categories) == categories[CRITICAL] \o categories[HIGH]

\* severity_icons.get(severity, default)
severity_icon(severity) ==
    IF severity = CRITICAL THEN "siren"
    ELSE IF severity = HIGH THEN "warning"
    ELSE IF severity = MEDIUM THEN "clipboard"
    ELSE IF severity = INFORMATIONAL THEN "info"
    ELSE "wrench"

\* Mutant: the entries are numbered from 0.
finding_entry_from_zero(i, finding) ==
    [kind |-> "finding", number |-> i - 1,
     rule_name |-> Get(finding, "rule_name", "Unknown Rule"),
     description |-> Get(finding, "details",
                         Get(finding, "description", "Security issue detected"))]

finding_entry(i, finding) ==
    [kind |-> "finding", number |-> i,
     rule_name |-> Get(finding, "rule_name", "Unknown Rule"),
     description |-> Get(finding, "details",
                         Get(finding, "description", "Security issue detected"))]

\* The body is the concatenation of its lines, in the order the code appends
\* them.
generate_pr_body(severity, findings, fixes_applied) ==
    <<[kind |-> "title", icon |-> severity_icon(severity), severity |-> Title(severity)],
      [kind |-> "issues_fixed", count |-> Len(findings), severity |-> Lower(severity)],
      [kind |-> "findings_heading"]>>
    \o [i \in 1..Len(findings) |-> finding_entry(i, findings[i])]
    \o <<[kind |-> "fixes_heading"]>>
    \o [i \in 1..Len(fixes_applied) |-> [kind |-> "fix", text |-> fixes_applied[i]]]
    \o <<[kind |-> "impact"], [kind |-> "resources"], [kind |-> "testing"],
         [kind |-> "footer"]>>

pr_title(critical_and_high) ==
    [prefix |-> "Fix", count |-> Len(critical_and_high),
     suffix |-> "Critical/High Security Issues"]

FixesApplied ==
    <<"Block S3 bucket public access", "Enable S3 server-side encryption",
      "Enable S3 versioning", "Remove wildcard IAM permissions",
      "Add IAM condition restrictions", "Remove programmatic access keys",
      "Add access logging", "Implement secure-by-default patterns">>

\* ---------------------------------------------------------------- state
VARIABLES
    pc,               \* where main() stands; "done" = returned, "raised" = left by an exception
    ret,              \* main()'s return value once pc = "done"
    run,              \* number of the current run of main() on this checkout
    results_exists,   \* os.path.exists('./fcs-results')
    results_dir,      \* what the results path holds
    template_exists,  \* os.path.exists(secure_template)
    findings,         \* main()'s findings
    categories,       \* main()'s categories
    steps,            \* the steps this run attempted, with what each returned
    calls,            \* the external commands and file copies this run invoked
    branches,         \* local branches of the checkout
    current_branch,   \* the checked-out branch
    head_content,     \* committed content of terraform/main.tf, per branch
    target_content,   \* working-tree content of terraform/main.tf
    staged,           \* whether terraform/main.tf is staged
    commits,          \* commits made on the checkout by the script
    pushed,           \* branches pushed to origin
    pr_calls,         \* the gh pr create invocations made, oldest first
    fix_at_start,     \* whether the fix branch existed when this run began
    fn_pc,            \* position of the method-level harness
    fn_dir,           \* harness input: a results path
    fn_severity,      \* harness input: generate_pr_body's severity
    fn_fixes,         \* harness input: generate_pr_body's fixes_applied
    fn_findings,      \* harness: load_security_findings' result
    fn_categories,    \* harness: categorize_findings' result
    fn_body           \* harness: generate_pr_body's result

run_vars == <<pc, ret, run, results_exists, results_dir, template_exists, findings,
              categories, steps, calls, branches, current_branch, head_content,
              target_content, staged, commits, pushed, pr_calls, fix_at_start>>
fn_vars == <<fn_pc, fn_dir, fn_severity, fn_fixes, fn_findings, fn_categories, fn_body>>
vars == <<run_vars, fn_vars>>

base_branch == "main"
branch_name == "security-fixes/critical-high-remediation"
TemplateContent == "secure"
VulnerableContent == "vulnerable"
NoReturn == -1

\* How a subprocess.run(..., check=True) can end: exit status 0, a non-zero
\* exit status (CalledProcessError), or the program cannot be started (OSError).
Outcomes == {"ok", "nonzero", "oserror"}

critical_and_high == critical_and_high_of(categories)

Return(code) == /\ pc' = "done"
                /\ ret' = code

Raise == /\ pc' = "raised"
         /\ ret' = NoReturn

Goto(label) == /\ pc' = label
               /\ ret' = NoReturn

Step(name, result) == steps' = Append(steps, [step |-> name, result |-> result])

Call(commands) == calls' = calls \o commands

inputs == <<results_exists, results_dir, template_exists, run, fix_at_start>>
loaded == <<findings, categories>>
checkout == <<branches, current_branch, head_content, target_content, staged, commits>>
remote == <<pushed, pr_calls>>

\* ---------------------------------------------------------------- main()
\* Lines 207-209: no results directory.
NoResults ==
    /\ pc = "start"
    /\ ~results_exists
    /\ Return(0)
    /\ UNCHANGED <<inputs, loaded, steps, calls, checkout, remote, fn_vars>>

\* Lines 213-214: load and categorize.
LoadAndCategorize ==
    /\ pc = "start"
    /\ results_exists
    /\ findings' = load_security_findings(results_dir)
    /\ categories' = categorize_findings(findings')
    /\ Goto("loaded")
    /\ UNCHANGED <<inputs, steps, calls, checkout, remote, fn_vars>>

\* Lines 216-218: nothing loaded.
NoFindings ==
    /\ pc = "loaded"
    /\ findings = <<>>
    /\ Return(0)
    /\ UNCHANGED <<inputs, loaded, steps, calls, checkout, remote, fn_vars>>

\* Lines 226-228, 279-283: nothing critical or high.
NoCriticalOrHigh ==
    /\ pc = "loaded"
    /\ findings # <<>>
    /\ critical_and_high = <<>>
    /\ Return(0)
    /\ UNCHANGED <<inputs, loaded, steps, calls, checkout, remote, fn_vars>>

\* Line 234: git checkout main, check=True, outside any try. An uncommitted
\* change of the target is carried over when both branches hold the same
\* committed content; otherwise git refuses to switch.
CheckoutBase ==
    /\ pc = "loaded"
    /\ findings # <<>>
    /\ critical_and_high # <<>>
    /\ Call(<<"git checkout main">>)
    /\ \E outcome \in Outcomes :
          LET dirty == target_content # head_content[current_branch]
              same == head_content[current_branch] = head_content[base_branch]
          IN /\ (dirty /\ ~same) => outcome # "ok"
             /\ IF outcome = "ok"
                THEN /\ current_branch' = base_branch
                     /\ target_content' = IF dirty THEN target_content
                                          ELSE head_content[base_branch]
                     /\ Goto("create_branch")
                ELSE /\ Raise
                     /\ UNCHANGED <<current_branch, target_content>>
    /\ UNCHANGED <<inputs, loaded, steps, branches, head_content, staged, commits,
                   remote, fn_vars>>

\* Lines 56-64 and 237, 276-278: git checkout -b. Only CalledProcessError is
\* caught. git refuses to create a branch that exists.
create_fix_branch ==
    /\ pc = "create_branch"
    /\ Call(<<"git checkout -b">>)
    /\ \E outcome \in Outcomes :
          /\ branch_name \in branches => outcome # "ok"
          /\ CASE outcome = "ok" ->
                    /\ branches' = branches \cup {branch_name}
                    /\ head_content' = [b \in branches' |->
                          IF b = branch_name THEN head_content[current_branch]
                          ELSE head_content[b]]
                    /\ current_branch' = branch_name
                    /\ Step("create_fix_branch", "True")
                    /\ Goto("apply")
               [] outcome = "nonzero" ->
                    /\ Step("create_fix_branch", "False")
                    /\ Return(1)
                    /\ UNCHANGED <<branches, head_content, current_branch>>
               [] outcome = "oserror" ->
                    /\ Step("create_fix_branch", "raised")
                    /\ Raise
                    /\ UNCHANGED <<branches, head_content, current_branch>>
    /\ UNCHANGED <<inputs, loaded, target_content, staged, commits, remote, fn_vars>>

\* Lines 66-107 and 241, 273-275: every exception is caught; a missing
\* template falls through to return False. git commit has nothing to commit
\* when the copied content is what the branch already holds.
apply_critical_fixes ==
    /\ pc = "apply"
    /\ IF ~template_exists
       THEN /\ Step("apply_critical_fixes", "False")
            /\ Return(1)
            /\ UNCHANGED <<calls, target_content, staged, commits, head_content>>
       ELSE \E copy \in {"ok", "oserror"}, add \in Outcomes, commit \in Outcomes :
               /\ TemplateContent = head_content[current_branch] => commit # "ok"
               /\ CASE copy # "ok" ->
                         /\ Call(<<"copy2">>)
                         /\ Step("apply_critical_fixes", "False")
                         /\ Return(1)
                         /\ UNCHANGED <<target_content, staged, commits, head_content>>
                    [] copy = "ok" /\ add # "ok" ->
                         /\ Call(<<"copy2", "git add">>)
                         /\ target_content' = TemplateContent
                         /\ Step("apply_critical_fixes", "False")
                         /\ Return(1)
                         /\ UNCHANGED <<staged, commits, head_content>>
                    [] copy = "ok" /\ add = "ok" /\ commit # "ok" ->
                         /\ Call(<<"copy2", "git add", "git commit">>)
                         /\ target_content' = TemplateContent
                         /\ staged' = (TemplateContent # head_content[current_branch])
                         /\ Step("apply_critical_fixes", "False")
                         /\ Return(1)
                         /\ UNCHANGED <<commits, head_content>>
                    [] copy = "ok" /\ add = "ok" /\ commit = "ok" ->
                         /\ Call(<<"copy2", "git add", "git commit">>)
                         /\ target_content' = TemplateContent
                         /\ staged' = FALSE
                         /\ commits' = commits + 1
                         /\ head_content' = [head_content EXCEPT
                                                ![current_branch] = TemplateContent]
                         /\ Step("apply_critical_fixes", "True")
                         /\ Goto("push")
    /\ UNCHANGED <<inputs, loaded, branches, current_branch, remote, fn_vars>>

\* Mutant: a failed push does not stop the run.
push_branch_unchecked ==
    /\ pc = "push"
    /\ Call(<<"git push">>)
    /\ \E outcome \in Outcomes :
          CASE outcome = "ok" ->
                    /\ pushed' = pushed \cup {branch_name}
                    /\ Step("push_branch", "True")
                    /\ Goto("create_pr")
            [] outcome = "nonzero" ->
                    /\ Step("push_branch", "False")
                    /\ Goto("create_pr")
                    /\ UNCHANGED pushed
            [] outcome = "oserror" ->
                    /\ Step("push_branch", "raised")
                    /\ Raise
                    /\ UNCHANGED pushed
    /\ UNCHANGED <<inputs, loaded, checkout, pr_calls, fn_vars>>

\* Lines 109-116 and 245, 270-272: git push -u origin. Only
\* CalledProcessError is caught.
push_branch ==
    /\ pc = "push"
    /\ Call(<<"git push">>)
    /\ \E outcome \in Outcomes :
          CASE outcome = "ok" ->
                    /\ pushed' = pushed \cup {branch_name}
                    /\ Step("push_branch", "True")
                    /\ Goto("create_pr")
            [] outcome = "nonzero" ->
                    /\ Step("push_branch", "False")
                    /\ Return(1)
                    /\ UNCHANGED pushed
            [] outcome = "oserror" ->
                    /\ Step("push_branch", "raised")
                    /\ Raise
                    /\ UNCHANGED pushed
    /\ UNCHANGED <<inputs, loaded, checkout, pr_calls, fn_vars>>

\* Lines 118-138 and 249-269, 282-283: title and body are generated, then
\* gh pr create runs. Only CalledProcessError is caught.
create_pull_request ==
    /\ pc = "create_pr"
    /\ Call(<<"gh pr create">>)
    /\ pr_calls' = Append(pr_calls,
          [title |-> pr_title(critical_and_high),
           body |-> generate_pr_body(CRITICAL_HIGH, critical_and_high, FixesApplied),
           head |-> branch_name, base |-> base_branch])
    /\ \E outcome \in Outcomes :
          CASE outcome = "ok" ->
                    /\ Step("create_pull_request", "True")
                    /\ Return(0)
            [] outcome = "nonzero" ->
                    /\ Step("create_pull_request", "False")
                    /\ Return(1)
            [] outcome = "oserror" ->
                    /\ Step("create_pull_request", "raised")
                    /\ Raise
    /\ UNCHANGED <<inputs, loaded, checkout, pushed, fn_vars>>

\* What one run of main() finds in its environment.
RunInputs ==
    { [exists |-> TRUE, dir |-> d, template |-> t] : d \in Dirs, t \in BOOLEAN }
    \cup { [exists |-> FALSE, dir |-> [listable |-> FALSE, files |-> <<>>], template |-> t]
           : t \in BOOLEAN }

\* Line 286 run again: the script is started once more on the same checkout.
NextRun ==
    /\ pc \in {"done", "raised"}
    /\ run < MaxRuns
    /\ run' = run + 1
    /\ \E in \in RunInputs :
          /\ results_exists' = in.exists
          /\ results_dir' = in.dir
          /\ template_exists' = in.template
    /\ fix_at_start' = (branch_name \in branches)
    /\ findings' = <<>>
    /\ categories' = EmptyCategories
    /\ steps' = <<>>
    /\ calls' = <<>>
    /\ Goto("start")
    /\ UNCHANGED <<checkout, remote, fn_vars>>

FnIdle ==
    /\ fn_pc = "idle"
    /\ fn_dir = [listable |-> FALSE, files |-> <<>>]
    /\ fn_severity = CRITICAL_HIGH
    /\ fn_fixes = <<>>
    /\ fn_findings = <<>>
    /\ fn_categories = EmptyCategories
    /\ fn_body = <<>>

Init ==
    /\ pc = "start"
    /\ ret = NoReturn
    /\ run = 1
    /\ \E in \in RunInputs :
          /\ results_exists = in.exists
          /\ results_dir = in.dir
          /\ template_exists = in.template
    /\ findings = <<>>
    /\ categories = EmptyCategories
    /\ steps = <<>>
    /\ calls = <<>>
    /\ branches = {base_branch}
    /\ current_branch = base_branch
    /\ \E content \in {VulnerableContent, TemplateContent} :
          /\ head_content = [b \in {base_branch} |-> content]
          /\ target_content = content
    /\ staged = FALSE
    /\ commits = 0
    /\ pushed = {}
    /\ pr_calls = <<>>
    /\ fix_at_start = FALSE
    /\ FnIdle

Next ==
    \/ NoResults
    \/ LoadAndCategorize
    \/ NoFindings
    \/ NoCriticalOrHigh
    \/ CheckoutBase
    \/ create_fix_branch
    \/ apply_critical_fixes
    \/ push_branch
    \/ create_pull_request
    \/ NextRun

Spec == Init /\ [][Next]_vars

\* ---------------------------------------------------------------- methods alone
\* The three pure methods applied to inputs drawn from bounded sets.
Severities == {CRITICAL, HIGH, <<"m","e","d","i","u","m">>, CRITICAL_HIGH}
FixLists == {<<>>, <<"Block S3 bucket public access">>, FixesApplied}

RunIdle ==
    /\ pc = "done"
    /\ ret = 0
    /\ run = MaxRuns
    /\ results_exists = FALSE
    /\ results_dir = [listable |-> FALSE, files |-> <<>>]
    /\ template_exists = FALSE
    /\ findings = <<>>
    /\ categories = EmptyCategories
    /\ steps = <<>>
    /\ calls = <<>>
    /\ branches = {base_branch}
    /\ current_branch = base_branch
    /\ head_content = [b \in {base_branch} |-> VulnerableContent]
    /\ target_content = VulnerableContent
    /\ staged = FALSE
    /\ commits = 0
    /\ pushed = {}
    /\ pr_calls = <<>>
    /\ fix_at_start = FALSE

InitFn ==
    /\ RunIdle
    /\ fn_pc = "input"
    /\ fn_dir \in Dirs
    /\ fn_severity \in Severities
    /\ fn_fixes \in FixLists
    /\ fn_findings = <<>>
    /\ fn_categories = EmptyCategories
    /\ fn_body = <<>>

CallLoad ==
    /\ fn_pc = "input"
    /\ fn_findings' = load_security_findings(fn_dir)
    /\ fn_pc' = "loaded"
    /\ UNCHANGED <<fn_dir, fn_severity, fn_fixes, fn_categories, fn_body, run_vars>>

CallCategorize ==
    /\ fn_pc = "loaded"
    /\ fn_categories' = categorize_findings(fn_findings)
    /\ fn_pc' = "categorized"
    /\ UNCHANGED <<fn_dir, fn_severity, fn_fixes, fn_findings, fn_body, run_vars>>

CallGeneratePrBody ==
    /\ fn_pc = "categorized"
    /\ fn_body' = generate_pr_body(fn_severity, fn_findings, fn_fixes)
    /\ fn_pc' = "generated"
    /\ UNCHANGED <<fn_dir, fn_severity, fn_fixes, fn_findings, fn_categories, run_vars>>

NextFn ==
    \/ CallLoad
    \/ CallCategorize
    \/ CallGeneratePrBody

SpecFn == InitFn /\ [][NextFn]_vars

\* ---------------------------------------------------------------- properties
StepOrder == <<"create_fix_branch", "apply_critical_fixes", "push_branch",
               "create_pull_request">>

\* The commands a step may have issued, by the step's place in StepOrder.
StepCommands(i) ==
    IF i = 1 THEN {<<"git checkout -b">>}
    ELSE IF i = 2 THEN {<<>>, <<"copy2">>, <<"copy2", "git add">>,
                         <<"copy2", "git add", "git commit">>}
    ELSE IF i = 3 THEN {<<"git push">>}
    ELSE {<<"gh pr create">>}

RECURSIVE CommandsOfSteps(_)
CommandsOfSteps(n) ==
    IF n = 0 THEN {<<"git checkout main">>}
    ELSE { c \o d : c \in CommandsOfSteps(n - 1), d \in StepCommands(n) }

Returned(i, value) == i \in DOMAIN steps /\ steps[i].result = value

HasCriticalOrHigh == Len(categories[CRITICAL]) + Len(categories[HIGH]) > 0

Finished == pc \in {"done", "raised"}

C2_Outcome ==
    /\ branch_name \in branches
    /\ target_content = TemplateContent
    /\ commits >= 1
    /\ head_content[branch_name] = TemplateContent
    /\ \E i \in DOMAIN calls : calls[i] = "gh pr create"
    /\ pr_calls # <<>>
    /\ pr_calls[Len(pr_calls)].title.count =
          Len(categories[CRITICAL]) + Len(categories[HIGH])

\* C2 as stated: with a CRITICAL or HIGH finding and the template present,
\* whenever main() has finished the branch exists, the target equals the
\* template, a commit exists and gh pr create was invoked with the
\* critical+high count in its title.
C2_AlwaysRemediated ==
    (pc = "done" /\ HasCriticalOrHigh /\ template_exists) => C2_Outcome

\* C2 amended: with a CRITICAL or HIGH finding and the template present,
\* whenever main() has returned 0 the branch exists, the target equals the
\* template, a commit exists and gh pr create was invoked with the
\* critical+high count in its title.
C2_RemediatedOnSuccess ==
    (pc = "done" /\ ret = 0 /\ HasCriticalOrHigh /\ template_exists) => C2_Outcome

\* C2 witness: a successful run over one CRITICAL and one HIGH finding.
C2_Witness ==
    /\ pc = "done"
    /\ ret = 0
    /\ template_exists
    /\ Len(categories[CRITICAL]) = 1
    /\ Len(categories[HIGH]) = 1
    /\ pr_calls # <<>>

\* The run's input holds nothing to remediate: no results directory, or
\* nothing loaded, or no loaded finding whose severity is CRITICAL or HIGH.
C3_NothingToRemediate ==
    \/ ~results_exists
    \/ LET found == load_security_findings(results_dir) IN
          \A i \in DOMAIN found :
             Upper(Get(found[i], "severity", INFORMATIONAL)) \notin {CRITICAL, HIGH}

\* C3: when the results directory is missing, or no finding is loaded, or no
\* finding is CRITICAL or HIGH, main() returns 0 and the run invokes no
\* version-control, file-copy or pull-request command.
C3_NoOpTouchesNothing ==
    C3_NothingToRemediate =>
        /\ calls = <<>>
        /\ steps = <<>>
        /\ pc \in {"start", "loaded", "done"}
        /\ pc = "done" => ret = 0
        /\ run = 1 => /\ branches = {base_branch}
                      /\ commits = 0
                      /\ pushed = {}
                      /\ pr_calls = <<>>

\* C3 witness: a run that loaded only MEDIUM/INFORMATIONAL findings returned 0.
C3_Witness ==
    /\ pc = "done"
    /\ ret = 0
    /\ results_exists
    /\ findings # <<>>
    /\ Len(categories[MEDIUM]) > 0
    /\ C3_NothingToRemediate

FnCategorized == fn_pc \in {"categorized", "generated"}

Unrecognized(finding) ==
    \/ "severity" \notin DOMAIN finding
    \/ Upper(finding.severity) \notin Labels

InBucket(finding, bucket) == \E j \in DOMAIN bucket : bucket[j] = finding

\* C4: categorize_findings puts every finding in exactly one bucket, those with
\* a missing or unrecognized severity in INFORMATIONAL, so the bucket sizes
\* sum to the number of findings.
C4_EveryFindingBucketed ==
    FnCategorized =>
        /\ Len(fn_categories[CRITICAL]) + Len(fn_categories[HIGH])
             + Len(fn_categories[MEDIUM]) + Len(fn_categories[INFORMATIONAL])
           = Len(fn_findings)
        /\ \A i \in DOMAIN fn_findings :
              Unrecognized(fn_findings[i]) =>
                 InBucket(fn_findings[i], fn_categories[INFORMATIONAL])

BucketOf(finding) ==
    IF "severity" \in DOMAIN finding THEN Upper(finding.severity) ELSE INFORMATIONAL

Subsequence(list, label) ==
    SelectSeq(list, LAMBDA f : BucketOf(f) = label)

\* C5: categorize_findings returns exactly the four buckets; a finding without
\* severity is in INFORMATIONAL, one whose upper-cased severity is a label is
\* in that bucket only, one with any other severity is in no bucket, and each
\* bucket is the subsequence of the input that maps to it, in input order.
C5_BucketsAreSubsequences ==
    FnCategorized =>
        /\ DOMAIN fn_categories = Labels
        /\ \A k \in Labels : fn_categories[k] = Subsequence(fn_findings, k)
        /\ \A i \in DOMAIN fn_findings :
              LET f == fn_findings[i] IN
              /\ f = FindingWith(<<>>) => InBucket(f, fn_categories[INFORMATIONAL])
              /\ f = FindingWith(<<"h","i","g","h">>) =>
                    /\ InBucket(f, fn_categories[HIGH])
                    /\ \A k \in Labels \ {HIGH} : ~InBucket(f, fn_categories[k])
              /\ f = FindingWith(<<"M","e","d","i","u","m">>) =>
                    InBucket(f, fn_categories[MEDIUM])
              /\ f = FindingWith(<<"L","O","W">>) =>
                    \A k \in Labels : ~InBucket(f, fn_categories[k])

\* C5 witness: a list holding a lower-case high, a LOW and a severity-less
\* finding has been categorized.
C5_Witness ==
    /\ fn_pc = "categorized"
    /\ Len(fn_findings) = 4
    /\ fn_categories[HIGH] = <<FindingWith(<<"h","i","g","h">>)>>
    /\ fn_categories[INFORMATIONAL] = <<FindingWith(<<>>)>>
    /\ \E i \in DOMAIN fn_findings : fn_findings[i] = FindingWith(<<"L","O","W">>)

\* C6: no failure of an external command leaves main() by an uncaught
\* exception; each is caught and main() returns 1.
C6_NoUncaughtException == pc # "raised"

\* C7: when load_security_findings meets a read or parse failure it returns
\* the empty list, whatever was loaded before the failure.
C7_FailureMeansEmpty ==
    (fn_pc # "input" /\ load_raises(fn_dir)) => fn_findings = <<>>

\* C8: when the template is absent in a run with a CRITICAL or HIGH finding,
\* main() returns 1, and the target file is not copied over, nothing is
\* staged or committed, nothing is pushed and gh pr create is not invoked.
C8_MissingTemplateReturnsOne ==
    (Finished /\ HasCriticalOrHigh /\ ~template_exists) =>
        /\ pc = "done"
        /\ ret = 1
        /\ \A i \in DOMAIN calls :
              calls[i] \notin {"copy2", "git add", "git commit", "git push",
                               "gh pr create"}

FindingLines(body) == SelectSeq(body, LAMBDA line : line.kind = "finding")

\* C9: the body generate_pr_body returns states len(findings) in its header
\* and lists exactly len(findings) entries right after the findings heading,
\* the i-th numbered i and built from the i-th finding.
C9_BodyEnumeratesFindings ==
    fn_pc = "generated" =>
        /\ fn_body[2].count = Len(fn_findings)
        /\ Len(FindingLines(fn_body)) = Len(fn_findings)
        /\ \A i \in DOMAIN fn_findings :
              /\ fn_body[3 + i] = FindingLines(fn_body)[i]
              /\ fn_body[3 + i].number = i
              /\ fn_body[3 + i].rule_name =
                    Get(fn_findings[i], "rule_name", "Unknown Rule")
              /\ fn_body[3 + i].description =
                    IF "details" \in DOMAIN fn_findings[i] THEN fn_findings[i].details
                    ELSE IF "description" \in DOMAIN fn_findings[i]
                         THEN fn_findings[i].description
                         ELSE "Security issue detected"

\* C9 witness: a body has been generated for four findings.
C9_Witness ==
    /\ fn_pc = "generated"
    /\ Len(fn_findings) = 4
    /\ Len(FindingLines(fn_body)) = 4

\* C10: once the fix branch exists, every later run with a CRITICAL or HIGH
\* finding checks out the base branch, fails at create_fix_branch and returns
\* 1 without copying, committing, pushing or invoking gh pr create; overall
\* at most one commit and one gh pr create invocation are made.
C10_LaterRunsFailAtBranch ==
    /\ commits <= 1
    /\ Len(pr_calls) <= 1
    /\ (Finished /\ fix_at_start /\ HasCriticalOrHigh) =>
          /\ pc = "done"
          /\ ret = 1
          /\ steps = <<[step |-> "create_fix_branch", result |-> "False"]>>
          /\ calls = <<"git checkout main", "git checkout -b">>

====
